---- MODULE Spec2Model ----
(***************************************************************************)
(* Model of the grading-and-retry orchestration of src/main.py:            *)
(* scan_folder, grade_file, _flatten_results_to_row, _get_csv_columns,     *)
(* process_submissions, _perform_grading_and_update_row,                   *)
(* retry_single_grading and retry_all_failed, with the Gradio state        *)
(* (results_state, csv_path_state) and the CSV file they persist to.       *)
(*                                                                         *)
(* Conventions.  A Python string is a TLA+ string; where the code looks    *)
(* inside a string (suffix match, sort, split, basename) the string's      *)
(* code points are taken from the table CharsOf.  A JSON value is a tagged *)
(* tuple: <<"num", n>>, <<"str", s>>, <<"bool", b>>; a key that a JSON     *)
(* object does not carry is ABSENT.  Numeric grades are carried in units   *)
(* of 0.5 (the rubric's scale is 0, 0.5, 1), so <<"num", 2>> is grade 1.   *)
(* An error message is a sequence of string fragments, '' being << >>.     *)
(***************************************************************************)
EXTENDS Integers, Sequences, FiniteSets, TLC

\* ------------------------------------------------------------------ bounds
\* Number of entries of the submissions folder.
DirSize == 2
\* Number of clock ticks (distinct datetime.now() readings beyond the first).
MaxTime == 1

\* ------------------------------------------------------------------ strings
\* Code points of every string the code inspects.
CharsOf ==
  [s \in {"a.py", "sub/a.py", "b.PY", "c.txt",
          ".py", "py, .py", ".py, .PY", ".txt",
          "1", "2", "10", "N/A", "ex_", "_", "grade", "feedback", "attempted",
          "file_path", "file_name", "status", "total_grade", "max_score",
          "is_complete", "error", "timestamp", "retry_button",
          "", "  ", "Do X"} |->
    CASE s = "a.py"      -> <<97, 46, 112, 121>>
      [] s = "sub/a.py"  -> <<115, 117, 98, 47, 97, 46, 112, 121>>
      [] s = "b.PY"      -> <<98, 46, 80, 89>>
      [] s = "c.txt"     -> <<99, 46, 116, 120, 116>>
      [] s = ".py"       -> <<46, 112, 121>>
      [] s = "py, .py"   -> <<112, 121, 44, 32, 46, 112, 121>>
      [] s = ".py, .PY"  -> <<46, 112, 121, 44, 32, 46, 80, 89>>
      [] s = ".txt"      -> <<46, 116, 120, 116>>
      [] s = "1"         -> <<49>>
      [] s = "2"         -> <<50>>
      [] s = "10"        -> <<49, 48>>
      [] s = "N/A"       -> <<78, 47, 65>>
      [] s = "ex_"       -> <<101, 120, 95>>
      [] s = "grade"     -> <<103, 114, 97, 100, 101>>
      [] s = "feedback"  -> <<102, 101, 101, 100, 98, 97, 99, 107>>
      [] s = "attempted" -> <<97, 116, 116, 101, 109, 112, 116, 101, 100>>
      [] s = "_"         -> <<95>>
      [] s = ""          -> << >>
      [] s = "  "        -> <<32, 32>>
      [] s = "Do X"      -> <<68, 111, 32, 88>>
      [] s = "file_path" -> <<102, 105, 108, 101, 95, 112, 97, 116, 104>>
      [] s = "file_name" -> <<102, 105, 108, 101, 95, 110, 97, 109, 101>>
      [] s = "status"    -> <<115, 116, 97, 116, 117, 115>>
      [] s = "total_grade" -> <<116, 111, 116, 97, 108, 95, 103, 114, 97, 100, 101>>
      [] s = "max_score" -> <<109, 97, 120, 95, 115, 99, 111, 114, 101>>
      [] s = "is_complete" ->
           <<105, 115, 95, 99, 111, 109, 112, 108, 101, 116, 101>>
      [] s = "error"     -> <<101, 114, 114, 111, 114>>
      [] s = "timestamp" -> <<116, 105, 109, 101, 115, 116, 97, 109, 112>>
      [] s = "retry_button" ->
           <<114, 101, 116, 114, 121, 95, 98, 117, 116, 116, 111, 110>>]

\* Python's str < str: lexicographic on code points, a proper prefix first.
LexLess(a, b) ==
  \E k \in 1..Len(b) :
    /\ \A j \in 1..(k - 1) : j <= Len(a) /\ a[j] = b[j]
    /\ (k > Len(a) \/ a[k] < b[k])

\* str.endswith on code points.
EndsWith(s, suffix) ==
  /\ Len(suffix) <= Len(s)
  /\ SubSeq(s, Len(s) - Len(suffix) + 1, Len(s)) = suffix

\* str.startswith on code points.
StartsWith(s, prefix) ==
  /\ Len(prefix) <= Len(s)
  /\ SubSeq(s, 1, Len(prefix)) = prefix

\* str.split(sep) on code points: the pieces between occurrences of sep.
RECURSIVE SplitAt(_, _, _)
SplitAt(s, sep, cur) ==
  IF s = << >> THEN <<cur>>
  ELSE IF Head(s) = sep THEN <<cur>> \o SplitAt(Tail(s), sep, << >>)
  ELSE SplitAt(Tail(s), sep, Append(cur, Head(s)))

\* str.strip() for blanks (code point 32).
RECURSIVE LStrip(_)
LStrip(s) == IF s /= << >> /\ Head(s) = 32 THEN LStrip(Tail(s)) ELSE s

RECURSIVE RStrip(_)
RStrip(s) ==
  IF s /= << >> /\ s[Len(s)] = 32 THEN RStrip(SubSeq(s, 1, Len(s) - 1)) ELSE s

Strip(s) == LStrip(RStrip(s))

\* sorted(): stable insertion sort of a sequence of strings; chars[x] gives the
\* code points of x.
RECURSIVE InsertSorted(_, _, _)
InsertSorted(x, sorted, chars) ==
  IF sorted = << >> THEN <<x>>
  ELSE IF LexLess(chars[x], chars[Head(sorted)]) THEN <<x>> \o sorted
  ELSE <<Head(sorted)>> \o InsertSorted(x, Tail(sorted), chars)

RECURSIVE SortedBy(_, _)
SortedBy(seq, chars) ==
  IF seq = << >> THEN << >>
  ELSE InsertSorted(seq[Len(seq)], SortedBy(SubSeq(seq, 1, Len(seq) - 1), chars), chars)

\* ------------------------------------------------------------------ scan_folder
\* The submissions folder: the first DirSize entries of this listing.
AllFiles == <<"sub/a.py", "b.PY", "c.txt", "a.py">>
Directory == {AllFiles[i] : i \in 1..DirSize}

\* The extension filters the front end may pass.
ExtensionInputs == {".py", "py, .py", ".py, .PY", ".txt"}

\* os.path.basename: the part after the last '/' (code point 47).
RECURSIVE LastSlash(_, _)
LastSlash(s, i) == IF i = 0 \/ s[i] = 47 THEN i ELSE LastSlash(s, i - 1)

BasenameChars(s) == SubSeq(s, LastSlash(s, Len(s)) + 1, Len(s))

Basename(path) ==
  CHOOSE s \in DOMAIN CharsOf : CharsOf[s] = BasenameChars(CharsOf[path])

\* ext.strip() then the leading-dot normalisation of one extension.
NormalizeExt(raw) ==
  LET ext == Strip(raw) IN IF StartsWith(ext, <<46>>) THEN ext ELSE <<46>> \o ext

\* glob(folder/**/*ext, recursive=True): the files whose name ends with ext,
\* in directory-listing order.
RECURSIVE GlobMatches(_, _)
GlobMatches(listing, ext) ==
  IF listing = << >> THEN << >>
  ELSE (IF /\ Head(listing) \in Directory
           /\ EndsWith(BasenameChars(CharsOf[Head(listing)]), ext)
        THEN <<Head(listing)>> ELSE << >>)
       \o GlobMatches(Tail(listing), ext)

RECURSIVE ExtendAll(_)
ExtendAll(exts) ==
  IF exts = << >> THEN << >>
  ELSE GlobMatches(AllFiles, NormalizeExt(Head(exts))) \o ExtendAll(Tail(exts))

scan_folder(file_extensions) ==
  SortedBy(ExtendAll(SplitAt(CharsOf[file_extensions], 44, << >>)), CharsOf)

\* ------------------------------------------------------------------ JSON values
ABSENT == <<"absent">>
JTrue == <<"bool", TRUE>>
JFalse == <<"bool", FALSE>>

\* dict.get(key, default) on a JSON object given as a record.
Get(obj, key, default) == IF obj[key] = ABSENT THEN default ELSE obj[key]

\* Python truthiness of a JSON value (`not is_attempted`).
Truthy(v) ==
  CASE v[1] = "bool" -> v[2]
    [] v[1] = "num"  -> v[2] /= 0
    [] v[1] = "str"  -> v[2] /= ""
    [] OTHER         -> FALSE

\* isinstance(grade, (int, float)); bool is a subclass of int.
IsNumber(v) == v[1] \in {"num", "bool"}

\* The number a numeric JSON value adds, in units of 0.5 (True is 1, False 0).
NumberOf(v) == IF v[1] = "bool" THEN (IF v[2] THEN 2 ELSE 0) ELSE v[2]

\* The elements the remote model may put in its array.  NonObject is a JSON
\* value that is no object (a number, a string): it has no .get.
NonObject == [object |-> FALSE]

JsonObject(id, attempted, grade, feedback) ==
  [object |-> TRUE, exercise_id |-> id, is_attempted |-> attempted,
   grade |-> grade, feedback |-> feedback]

ExA == JsonObject(<<"str", "1">>, JTrue, <<"num", 2>>, <<"str", "good">>)
ExB == JsonObject(<<"str", "10">>, ABSENT, <<"str", "A">>, ABSENT)
ExC == JsonObject(ABSENT, JFalse, <<"num", 1>>, <<"str", "partly">>)
ExD == JsonObject(<<"str", "2">>, JTrue, JTrue, <<"str", "ok">>)

\* What generate_content may answer: response.text is None, text that is no
\* JSON, JSON that is no array, or a JSON array.
TextNone == [kind |-> "none", text |-> "None", value |-> << >>]
TextInvalid == [kind |-> "invalid", text |-> "Sorry, I cannot grade this.", value |-> << >>]
TextObject == [kind |-> "object", text |-> "{\"grade\": 1}", value |-> << >>]
Array(elements) ==
  [kind |-> "array", text |-> IF elements = << >> THEN "[]" ELSE "[...]",
   value |-> elements]

\* The local `response` of grade_file before generate_content has answered.
NoResponse == [kind |-> "unbound", text |-> "", value |-> << >>]

\* The remote service of a session: the states it reports for an uploaded
\* file, whether its calls may raise, and the answers its model gives.
Sessions ==
  { [states |-> {"ACTIVE"}, raises |-> FALSE,
     responses |-> {TextInvalid, Array(<<ExA>>), Array(<<ExB, ExC>>), Array(<<ExA, ExA>>)}],
    [states |-> {"ACTIVE"}, raises |-> FALSE,
     responses |-> {TextInvalid, Array(<<ExC>>), Array(<<ExA, NonObject>>)}],
    [states |-> {"ACTIVE"}, raises |-> FALSE,
     responses |-> {TextNone, TextInvalid, TextObject, Array(<< >>), Array(<<ExD>>)}],
    [states |-> {"PROCESSING", "ACTIVE", "FAILED"}, raises |-> TRUE,
     responses |-> {Array(<<ExA>>)}] }

\* What a raising remote call raises: str(e).
RemoteErrors == {"503 UNAVAILABLE"}

\* ------------------------------------------------------------------ rows
CoreColumns ==
  << <<"file_path">>, <<"file_name">>, <<"status">>, <<"grade">>,
     <<"total_grade">>, <<"max_score">>, <<"is_complete">>, <<"error">>,
     <<"timestamp">> >>

ExFields == <<"grade", "feedback", "attempted">>

\* f"ex_{exercise_id}_grade" and its two siblings, as string parts.
ExColumn(id, field) == <<"ex_", id, "_", field>>

RECURSIVE Concat(_)
Concat(parts) ==
  IF parts = << >> THEN << >> ELSE CharsOf[Head(parts)] \o Concat(Tail(parts))

\* The code points of a column name.
ColumnChars(col) == Concat(col)

\* f"{exercise_id}": the id as it appears in a key.
IdText(v) == v[2]

\* f"{total_score} / {max_score}".
GradeText(total_score, max_score) == <<total_score, " / ", max_score>>

\* dict[key] = value for the three ex_<id>_* keys of one exercise: the row's
\* dynamic keys are kept in insertion order, one entry per exercise id, and a
\* repeated id overwrites the entry in place.
SetEntry(ex, entry) ==
  IF \E i \in 1..Len(ex) : ex[i].id = entry.id
  THEN [i \in 1..Len(ex) |-> IF ex[i].id = entry.id THEN entry ELSE ex[i]]
  ELSE Append(ex, entry)

\* Lines 170-171: a grade that is a number is added to the total.
AddToTotal(total_score, grade) ==
  IF IsNumber(grade) THEN total_score + NumberOf(grade) ELSE total_score

\* A slip: only graded exercises count towards the maximum.
NextMaxScoreGradedOnly(max_score, grade) ==
  IF IsNumber(grade) /\ NumberOf(grade) > 0 THEN max_score + 1 ELSE max_score

\* Line 172: each exercise is one point of the maximum.
NextMaxScore(max_score, grade) == max_score + 1

\* A slip: the flag is never lowered.
StillAllAttemptedNeverLowered(all_attempted, is_attempted) == all_attempted

\* Lines 174-175.
StillAllAttempted(all_attempted, is_attempted) ==
  IF ~Truthy(is_attempted) THEN FALSE ELSE all_attempted

\* _flatten_results_to_row, lines 163-183: one iteration of the loop over the
\* exercises.  acc carries total_score, max_score, all_attempted, feedback_parts
\* and the row's ex_* keys; a non-object element raises at ex.get.
FlattenStep(acc, ex) ==
  IF acc.raised THEN acc
  ELSE IF ~ex.object THEN [acc EXCEPT !.raised = TRUE]
  ELSE
    LET exercise_id == IdText(Get(ex, "exercise_id", <<"str", "N/A">>))
        is_attempted == Get(ex, "is_attempted", JFalse)
        grade == Get(ex, "grade", <<"num", 0>>)
        feedback == Get(ex, "feedback", <<"str", "No feedback.">>)
        entry == [id |-> exercise_id, grade |-> grade, feedback |-> feedback,
                  attempted |-> is_attempted]
    IN [acc EXCEPT
          !.total_score = AddToTotal(@, grade),
          !.max_score = NextMaxScore(@, grade),
          !.all_attempted = StillAllAttempted(@, is_attempted),
          !.feedback_parts = Append(@, <<exercise_id, grade, feedback>>),
          !.ex = SetEntry(@, entry)]

RECURSIVE FlattenLoop(_, _)
FlattenLoop(acc, data) ==
  IF data = << >> THEN acc ELSE FlattenLoop(FlattenStep(acc, Head(data)), Tail(data))

\* _flatten_results_to_row(result_data, file_result_dict): the row afterwards,
\* and whether the call raised (then only the ex_* keys written so far stay).
flatten_results_to_row(result_data, row) ==
  IF result_data = << >>
  THEN [raised |-> FALSE,
        row |-> [row EXCEPT !.grade = GradeText(0, 0),
                            !.feedback = <<"No exercises found or graded.">>,
                            !.is_complete = FALSE,
                            !.total_grade = 0,
                            !.max_score = 0]]
  ELSE
    LET acc == FlattenLoop([raised |-> FALSE, total_score |-> 0, max_score |-> 0,
                            all_attempted |-> TRUE, feedback_parts |-> << >>,
                            ex |-> row.ex], result_data)
    IN IF acc.raised
       THEN [raised |-> TRUE, row |-> [row EXCEPT !.ex = acc.ex]]
       ELSE [raised |-> FALSE,
             row |-> [row EXCEPT !.ex = acc.ex,
                                 !.grade = GradeText(acc.total_score, acc.max_score),
                                 !.feedback = acc.feedback_parts,
                                 !.is_complete = acc.all_attempted,
                                 !.total_grade = acc.total_score,
                                 !.max_score = acc.max_score]]

\* A slip: the failure branch leaves the totals of the earlier attempt.
FailedRowKeepsTotals(row, error) ==
  [row EXCEPT !.status = "failed", !.error = error, !.grade = << >>,
              !.feedback = << >>, !.is_complete = FALSE]

\* The failure branch shared by process_submissions (256-262) and
\* _perform_grading_and_update_row (315-321).
FailedRow(row, error) ==
  [row EXCEPT !.status = "failed", !.error = error, !.grade = << >>,
              !.feedback = << >>, !.is_complete = FALSE,
              !.total_grade = 0, !.max_score = 0]

\* The success branch up to the call of _flatten_results_to_row.
SuccessRow(row) == [row EXCEPT !.status = "success", !.error = << >>]

\* The ex_* keys a row carries.
ExKeys(row) == {ExColumn(row.ex[i].id, ExFields[f]) : i \in 1..Len(row.ex), f \in 1..3}

\* A slip: the keys of the earlier attempt are left in place.
KeepDynamicKeys(row) == row

\* Lines 304-307: every key starting with 'ex_' is deleted.
ClearDynamicKeys(row) == [row EXCEPT !.ex = << >>]

\* ------------------------------------------------------------------ CSV
PlainColumns ==
  << <<"file_path">>, <<"file_name">>, <<"timestamp">>, <<"retry_button">>,
     <<"status">>, <<"error">>, <<"grade">>, <<"feedback">>, <<"is_complete">>,
     <<"total_grade">>, <<"max_score">> >>

SeqToSet(q) == {q[i] : i \in 1..Len(q)}

\* The ex_* keys of one row, in the row's key order.
RECURSIVE ExKeySeq(_)
ExKeySeq(ex) ==
  IF ex = << >> THEN << >>
  ELSE <<ExColumn(Head(ex).id, "grade"), ExColumn(Head(ex).id, "feedback"),
         ExColumn(Head(ex).id, "attempted")>> \o ExKeySeq(Tail(ex))

\* Appends the elements of more that seen does not hold yet.
AppendNew(seen, more) ==
  LET all == seen \o more
      Fresh(i) == \A j \in 1..(i - 1) : all[j] /= all[i]
      keep == SelectSeq([i \in 1..Len(all) |-> i], Fresh)
  IN [k \in 1..Len(keep) |-> all[keep[k]]]

\* pd.DataFrame(results).columns: the union of the rows' keys, each once.
RECURSIVE DataFrameColumns(_)
DataFrameColumns(table) ==
  IF table = << >> THEN << >>
  ELSE AppendNew(AppendNew(DataFrameColumns(SubSeq(table, 1, Len(table) - 1)),
                           PlainColumns),
                 ExKeySeq(table[Len(table)].ex))

\* A slip: the dynamic columns are left in the frame's order.
get_csv_columns_unsorted(all_columns) ==
  LET IsDynamic(col) == StartsWith(ColumnChars(col), CharsOf["ex_"])
      Present(col) == col \in SeqToSet(all_columns)
  IN SelectSeq(CoreColumns, Present) \o SelectSeq(all_columns, IsDynamic)

\* _get_csv_columns(dataframe).
get_csv_columns(all_columns) ==
  LET IsDynamic(col) == StartsWith(ColumnChars(col), CharsOf["ex_"])
      Present(col) == col \in SeqToSet(all_columns)
      chars == [col \in SeqToSet(all_columns) |-> ColumnChars(col)]
      dynamic_cols == SortedBy(SelectSeq(all_columns, IsDynamic), chars)
      final_core_cols == SelectSeq(CoreColumns, Present)
  IN final_core_cols \o dynamic_cols

NaN == <<"nan">>

\* The cell of a row under a column; a key the row lacks reads as NaN.
Cell(row, col) ==
  IF Len(col) = 1
  THEN CASE col[1] = "file_path"   -> row.file_path
         [] col[1] = "file_name"   -> row.file_name
         [] col[1] = "timestamp"   -> row.timestamp
         [] col[1] = "retry_button" -> row.retry_button
         [] col[1] = "status"      -> row.status
         [] col[1] = "error"       -> row.error
         [] col[1] = "grade"       -> row.grade
         [] col[1] = "feedback"    -> row.feedback
         [] col[1] = "is_complete" -> row.is_complete
         [] col[1] = "total_grade" -> row.total_grade
         [] col[1] = "max_score"   -> row.max_score
  ELSE IF \E i \in 1..Len(row.ex) : row.ex[i].id = col[2]
       THEN LET e == row.ex[CHOOSE i \in 1..Len(row.ex) : row.ex[i].id = col[2]]
            IN CASE col[4] = "grade" -> e.grade
                 [] col[4] = "feedback" -> e.feedback
                 [] col[4] = "attempted" -> e.attempted
       ELSE NaN

\* df[df_columns].to_csv(path, index=False): the header and one line per row.
ToCsv(table) ==
  LET df_columns == get_csv_columns(DataFrameColumns(table))
  IN [columns |-> df_columns,
      rows |-> [i \in 1..Len(table) |->
                  [j \in 1..Len(df_columns) |-> Cell(table[i], df_columns[j])]]]

NoFile == [columns |-> << >>, rows |-> << >>]

\* ------------------------------------------------------------------ grade_file's outcomes
Success(data) == [status |-> "success", data |-> data, error |-> << >>]
Failure(error) == [status |-> "failed", data |-> << >>, error |-> error]
NoResult == [status |-> "none", data |-> << >>, error |-> << >>]

\* A slip: the parse failure reports no raw text.
ParseResponseNoRaw(answer) ==
  IF answer.kind = "array" /\ answer.value /= << >>
  THEN Success(answer.value)
  ELSE Failure(<<"Failed to parse LLM response.">>)

\* Lines 104-135: what grade_file returns for a response of generate_content.
ParseResponse(answer) ==
  CASE answer.kind = "none" ->
         \* response.text.strip() raises AttributeError; the outer except catches it
         Failure(<<"'NoneType' object has no attribute 'strip'">>)
    [] answer.kind \in {"invalid", "object"} ->
         \* json.loads raises, or the value is no list: JSONDecodeError
         Failure(<<"Failed to parse LLM response. Raw: ", answer.text>>)
    [] answer.kind = "array" /\ answer.value = << >> ->
         Failure(<<"Grader returned an empty result list.">>)
    [] OTHER -> Success(answer.value)

\* A slip: the finally block deletes nothing.
ShouldDeleteNever(file) == FALSE

\* A slip: the guard of the delete is inverted.
ShouldDeleteInverted(file) == file = "None"

\* Line 138: `if uploaded_file:` guards the delete.
ShouldDelete(file) == file /= "None"

\* ------------------------------------------------------------------ history
\* What the data model says of a parsed array: whether it is a sequence of
\* exercise objects, how many there are, what their numeric grades add up to
\* (in units of 0.5) and whether each has is_attempted = true.
IsExerciseList(data) == \A i \in 1..Len(data) : data[i].object

RECURSIVE GradeSum(_)
GradeSum(data) ==
  IF data = << >> THEN 0
  ELSE (IF Head(data).grade /= ABSENT /\ Head(data).grade[1] = "num"
        THEN Head(data).grade[2] ELSE 0) + GradeSum(Tail(data))

\* What the code adds up: isinstance(grade, (int, float)) also takes a JSON
\* boolean, which then counts as 1 or 0.
RECURSIVE CountedSum(_)
CountedSum(data) ==
  IF data = << >> THEN 0
  ELSE (IF Head(data).grade = ABSENT THEN 0
        ELSE IF Head(data).grade[1] = "num" THEN Head(data).grade[2]
        ELSE IF Head(data).grade = JTrue THEN 2
        ELSE 0) + CountedSum(Tail(data))

EveryAttempted(data) == \A i \in 1..Len(data) : data[i].is_attempted = JTrue

RECURSIVE IdsOf(_)
IdsOf(data) ==
  IF data = << >> THEN {}
  ELSE (IF Head(data).object
        THEN {IF Head(data).exercise_id = ABSENT THEN "N/A" ELSE Head(data).exercise_id[2]}
        ELSE {}) \cup IdsOf(Tail(data))

Summary(data) ==
  [count |-> Len(data), sum |-> CountedSum(data), attempted |-> EveryAttempted(data)]

NoSummary == [count |-> 0, sum |-> 0, attempted |-> FALSE]

\* The record kept beside each row: the summary of the last grading attempt that
\* returned a list of exercise objects (parsed = FALSE while there is none), and
\* whether the last attempt that returned such a list or a failure was a failure;
\* ids are the exercise ids of the attempt the summary is of.
NoHistory == [parsed |-> FALSE, summary |-> NoSummary, last |-> "none", ids |-> {}]

Observe(h, outcome) ==
  IF outcome.status = "failed" THEN [h EXCEPT !.last = "failure"]
  ELSE IF IsExerciseList(outcome.data)
       THEN [parsed |-> TRUE, summary |-> Summary(outcome.data), last |-> "success",
             ids |-> IdsOf(outcome.data)]
       ELSE h

\* ------------------------------------------------------------------ state
VARIABLES
  results_state,    \* gr.State: the result table, a sequence of rows
  csv_path_state,   \* gr.State: the CSV path of the batch, NoPath (None) before one
  csv_file,         \* the content of the file at csv_path_state (NoFile if None)
  status_output,    \* the status message of the handler that returned last
  op,               \* the handler that is running, "idle" when none is
  pc,               \* its position: "entry", "grading", "finish"
  args,             \* the inputs it was called with
  files,            \* process_submissions: the scanned file list
  results,          \* process_submissions: the rows built so far
  failed_indices,   \* retry_all_failed: the indices collected at its start
  idx,              \* position of the loop over files / failed_indices
  success_count,    \* retry_all_failed: successful retries so far
  g_pc,             \* grade_file: "idle", "upload", "poll", "generate", "cleanup", "returned"
  uploaded_file,    \* grade_file: "None" or the remote file's state name
  result,           \* grade_file: the dictionary it returns
  now,              \* the clock datetime.now() reads
  remote_calls,     \* history: the kinds of remote call the running handler made
  deletes,          \* history: delete attempts of the running grade_file call
  delete_raised,    \* history: whether that delete raised (the warning is printed)
  response,         \* grade_file: what generate_content answered, NoResponse before
  hist,             \* history: one record per row of results_state
  hist_results,     \* history: one record per row of results
  remote,           \* the remote service of the session
  remote_files      \* history: uploaded files whose delete was not attempted yet

\* The state of doctopdf.py, a script of its own.
VARIABLES
  input_is_dir,     \* whether input_dir is a directory
  input_tree,       \* the files under input_dir
  c_pc,             \* process_directory: "idle", "start", "loop", "returned"
  docx_files,       \* process_directory: the list rglob('*.docx') gave
  c_idx,            \* position of the loop over docx_files
  converted_count,  \* process_directory: conversions that succeeded
  failed_count,     \* process_directory: conversions that raised
  output_files,     \* the PDF paths written under output_dir
  printed,          \* the last message process_directory printed
  conv_log          \* history: per file of the loop, how its iteration ended

conv_vars ==
  <<input_is_dir, input_tree, c_pc, docx_files, c_idx, converted_count,
    failed_count, output_files, printed, conv_log>>

vars ==
  <<results_state, csv_path_state, csv_file, status_output, op, pc, args, files,
    results, failed_indices, idx, success_count, g_pc, uploaded_file, result, now,
    remote_calls, deletes, delete_raised, response, hist, hist_results, remote, remote_files,
    input_is_dir, input_tree, c_pc, docx_files, c_idx, converted_count,
    failed_count, output_files, printed, conv_log>>

table_vars == <<results_state, csv_path_state, csv_file, hist>>
local_vars ==
  <<files, results, failed_indices, idx, success_count, hist_results, remote>>
grade_vars == <<g_pc, uploaded_file, result, remote_calls, deletes, delete_raised, response>>

NoPath == << >>

NoArgs ==
  [api_key |-> "", folder_path |-> "", file_extensions |-> ".py",
   exercise_problem |-> "", row_index |-> 0, col_index |-> 0]

\* doctopdf.py is not running.
ConvertIdle ==
  /\ input_is_dir = FALSE
  /\ input_tree = {}
  /\ c_pc = "idle"
  /\ docx_files = << >>
  /\ c_idx = 0
  /\ converted_count = 0
  /\ failed_count = 0
  /\ output_files = {}
  /\ printed = << >>
  /\ conv_log = << >>

\* The state of main.py when the page is loaded.
AppLaunch ==
  /\ results_state = << >>
  /\ csv_path_state = NoPath
  /\ csv_file = NoFile
  /\ status_output = << >>
  /\ op = "idle"
  /\ pc = "idle"
  /\ args = NoArgs
  /\ files = << >>
  /\ results = << >>
  /\ failed_indices = << >>
  /\ idx = 0
  /\ success_count = 0
  /\ g_pc = "idle"
  /\ uploaded_file = "None"
  /\ result = NoResult
  /\ now = 0
  /\ remote_calls = {}
  /\ deletes = 0
  /\ delete_raised = FALSE
  /\ response = NoResponse
  /\ hist = << >>
  /\ hist_results = << >>
  /\ remote_files = 0

Init ==
  /\ AppLaunch
  /\ remote \in Sessions
  /\ ConvertIdle

\* ------------------------------------------------------------------ grade_file
\* The call of grade_file: its frame starts at the upload.
CallGradeFile ==
  /\ g_pc' = "upload"
  /\ uploaded_file' = "None"
  /\ result' = NoResult
  /\ deletes' = 0
  /\ delete_raised' = FALSE
  /\ response' = NoResponse

\* Lines 51 and 31-38: upload_to_gemini returns the file object or raises.
Upload ==
  /\ g_pc = "upload"
  /\ UNCHANGED conv_vars
  /\ remote_calls' = remote_calls \cup {"upload"}
  /\ \/ \E state \in remote.states :
          /\ uploaded_file' = state
          /\ remote_files' = remote_files + 1
          /\ g_pc' = "poll"
          /\ UNCHANGED result
     \/ \E e \in RemoteErrors :
          /\ remote.raises
          /\ result' = Failure(<<"Upload failed: ", e>>)
          /\ g_pc' = "cleanup"
          /\ UNCHANGED <<uploaded_file, remote_files>>
  /\ UNCHANGED <<table_vars, local_vars, status_output, op, pc, args, now,
                 deletes, delete_raised, response>>

\* A slip: the loop does not wait for the file.
KeepsPollingNever(state_name) == FALSE

\* Line 54: the condition of the polling loop; it has no other exit.
KeepsPolling(state_name) == state_name = "PROCESSING"

\* Lines 54-57: one round of the polling loop.
Poll ==
  /\ g_pc = "poll"
  /\ UNCHANGED conv_vars
  /\ KeepsPolling(uploaded_file)
  /\ remote_calls' = remote_calls \cup {"get"}
  /\ \/ \E state \in remote.states :
          /\ uploaded_file' = state
          /\ UNCHANGED <<g_pc, result>>
     \/ \E e \in RemoteErrors :
          /\ remote.raises
          /\ result' = Failure(<<e>>)
          /\ g_pc' = "cleanup"
          /\ UNCHANGED uploaded_file
  /\ UNCHANGED <<table_vars, local_vars, status_output, op, pc, args, now,
                 deletes, delete_raised, response, remote_files>>

\* A slip: the state the loop ended on is not looked at.
ProcessingFailedIgnored(state_name) == FALSE

\* Line 59: the state that makes grade_file raise.
ProcessingFailed(state_name) == state_name = "FAILED"

\* Lines 54 and 59-60: the loop ends; a FAILED file raises.
CheckState ==
  /\ g_pc = "poll"
  /\ UNCHANGED conv_vars
  /\ ~KeepsPolling(uploaded_file)
  /\ IF ProcessingFailed(uploaded_file)
     THEN /\ result' = Failure(<<"File processing failed on Gemini's end">>)
          /\ g_pc' = "cleanup"
     ELSE /\ g_pc' = "generate"
          /\ UNCHANGED result
  /\ UNCHANGED <<table_vars, local_vars, status_output, op, pc, args, now,
                 uploaded_file, remote_calls, deletes, delete_raised, response,
                 remote_files>>

\* Lines 91-135: generate_content answers or raises; the answer is parsed.
Generate ==
  /\ g_pc = "generate"
  /\ UNCHANGED conv_vars
  /\ remote_calls' = remote_calls \cup {"generate"}
  /\ \/ \E answer \in remote.responses :
          /\ response' = answer
          /\ result' = ParseResponse(answer)
     \/ \E e \in RemoteErrors :
          /\ remote.raises
          /\ result' = Failure(<<e>>)
          /\ UNCHANGED response
  /\ g_pc' = "cleanup"
  /\ UNCHANGED <<table_vars, local_vars, status_output, op, pc, args, now,
                 uploaded_file, deletes, delete_raised, remote_files>>

\* Lines 136-142: the finally block; the delete may raise, which is printed.
Cleanup ==
  /\ g_pc = "cleanup"
  /\ UNCHANGED conv_vars
  /\ IF ShouldDelete(uploaded_file)
     THEN /\ remote_calls' = remote_calls \cup {"delete"}
          /\ deletes' = deletes + 1
          /\ delete_raised' \in BOOLEAN
          /\ remote_files' =
               IF uploaded_file /= "None" THEN remote_files - 1 ELSE remote_files
     ELSE UNCHANGED <<remote_calls, deletes, delete_raised, remote_files>>
  /\ g_pc' = "returned"
  /\ UNCHANGED <<table_vars, local_vars, status_output, op, pc, args, now,
                 uploaded_file, result, response>>

\* Time passes.  Only the readings of datetime.now() matter, and each one
\* follows a return of grade_file, so the clock is let advance there.
Tick ==
  /\ g_pc = "returned"
  /\ UNCHANGED conv_vars
  /\ now < MaxTime
  /\ now' = now + 1
  /\ UNCHANGED <<table_vars, local_vars, grade_vars, status_output, op, pc, args,
                 remote_files>>

\* ------------------------------------------------------------------ inputs
\* A slip: the rubric is tested without strip().
IsBlankNoStrip(text) == CharsOf[text] = << >>

\* `not exercise_problem.strip()`.
IsBlank(text) == Strip(CharsOf[text]) = << >>

\* A slip: the folder is not looked for.
FolderExistsUnchecked(path) == TRUE

\* os.path.exists(folder_path): the one folder there is.
FolderExists(path) == path = "submissions"

ProcessInputs ==
  {[NoArgs EXCEPT !.api_key = "key", !.folder_path = "submissions",
                  !.exercise_problem = "Do X", !.file_extensions = e] :
     e \in ExtensionInputs}
  \cup {[NoArgs EXCEPT !.folder_path = "submissions", !.exercise_problem = "Do X"],
        [NoArgs EXCEPT !.api_key = "key", !.exercise_problem = "Do X"],
        [NoArgs EXCEPT !.api_key = "key", !.folder_path = "missing",
                       !.exercise_problem = "Do X"],
        [NoArgs EXCEPT !.api_key = "key", !.folder_path = "submissions",
                       !.exercise_problem = "  "]}

\* The column of the retry button in the displayed table (line 340).
RetryColumn == 6

RetrySingleInputs ==
  {[NoArgs EXCEPT !.api_key = "key", !.exercise_problem = "Do X",
                  !.row_index = r, !.col_index = RetryColumn] : r \in 0..DirSize}
  \cup {[NoArgs EXCEPT !.exercise_problem = "Do X", !.col_index = RetryColumn],
        [NoArgs EXCEPT !.api_key = "key", !.exercise_problem = "  ",
                       !.col_index = RetryColumn],
        [NoArgs EXCEPT !.api_key = "key", !.exercise_problem = "Do X",
                       !.col_index = 0]}

RetryAllInputs ==
  {[NoArgs EXCEPT !.api_key = "key", !.exercise_problem = "Do X"],
   [NoArgs EXCEPT !.exercise_problem = "Do X"],
   [NoArgs EXCEPT !.api_key = "key", !.exercise_problem = "  "]}

\* ------------------------------------------------------------------ the front end
\* A click routes to a handler (lines 511-528).  The handler's locals start
\* empty; the status box shows nothing until the handler returns.
Click(handler, inputs) ==
  /\ op = "idle"
  /\ UNCHANGED conv_vars
  /\ op' = handler
  /\ pc' = "entry"
  /\ args' = inputs
  /\ status_output' = << >>
  /\ remote_calls' = {}
  /\ files' = << >>
  /\ UNCHANGED <<table_vars, results, failed_indices, idx, success_count,
                 hist_results, g_pc, uploaded_file, result, now, deletes,
                 delete_raised, response, remote, remote_files>>

\* A second batch of a session overwrites both states whatever they held (every
\* return of process_submissions assigns them), so a batch is started on an empty
\* table: in a new session, or after a batch that returned no table.
ClickProcess ==
  /\ results_state = << >>
  /\ \E inputs \in ProcessInputs : Click("process_submissions", inputs)

ClickRetry == \E inputs \in RetrySingleInputs : Click("retry_single_grading", inputs)

ClickRetryAll == \E inputs \in RetryAllInputs : Click("retry_all_failed", inputs)

\* The page is loaded anew: gr.State([]) and gr.State(None), lines 440-441.
NewSession ==
  /\ op = "idle"
  /\ UNCHANGED conv_vars
  /\ results_state /= << >>
  /\ results_state' = << >>
  /\ csv_path_state' = NoPath
  /\ csv_file' = NoFile
  /\ hist' = << >>
  /\ status_output' = << >>
  /\ files' = << >>
  /\ UNCHANGED <<op, pc, args, results, failed_indices, idx, success_count,
                 hist_results, grade_vars, now, remote, remote_files>>

\* The handler returns: its frame is gone.
Return ==
  /\ op' = "idle"
  /\ pc' = "idle"
  /\ args' = NoArgs
  /\ results' = << >>
  /\ hist_results' = << >>
  /\ failed_indices' = << >>
  /\ idx' = 0
  /\ success_count' = 0
  /\ g_pc' = "idle"
  /\ uploaded_file' = "None"
  /\ result' = NoResult
  /\ deletes' = 0
  /\ delete_raised' = FALSE
  /\ response' = NoResponse

\* ------------------------------------------------------------------ process_submissions
\* The four early returns and the except of process_submissions: message, None,
\* [], None are assigned to the status box, the table and the two states.
ReturnNoTable(message) ==
  /\ status_output' = message
  /\ results_state' = << >>
  /\ csv_path_state' = NoPath
  /\ csv_file' = NoFile
  /\ hist' = << >>
  /\ Return

\* Lines 211-232.
ProcessSubmissionsBegin ==
  /\ op = "process_submissions"
  /\ UNCHANGED conv_vars
  /\ pc = "entry"
  /\ IF args.api_key = ""
     THEN /\ ReturnNoTable(<<"Please provide a Gemini API key">>)
          /\ UNCHANGED <<files, now, remote_calls, remote, remote_files>>
     ELSE IF args.folder_path = "" \/ ~FolderExists(args.folder_path)
     THEN /\ ReturnNoTable(<<"Please provide a valid folder path for submissions">>)
          /\ UNCHANGED <<files, now, remote_calls, remote, remote_files>>
     ELSE IF IsBlank(args.exercise_problem)
     THEN /\ ReturnNoTable(<<"Please paste the exercise problem statement(s)">>)
          /\ UNCHANGED <<files, now, remote_calls, remote, remote_files>>
     ELSE IF scan_folder(args.file_extensions) = << >>
     THEN /\ ReturnNoTable(<<"No submission files found with extensions: ",
                             args.file_extensions>>)
          /\ UNCHANGED <<files, now, remote_calls, remote, remote_files>>
     ELSE /\ files' = scan_folder(args.file_extensions)
          /\ results' = << >>
          /\ hist_results' = << >>
          /\ idx' = 1
          /\ pc' = "grading"
          /\ CallGradeFile
          /\ UNCHANGED <<table_vars, status_output, op, args, failed_indices,
                         success_count, now, remote_calls, remote, remote_files>>

\* Lines 243-248: the dictionary of a file before its outcome is entered.
NewRow(file_path, timestamp) ==
  [file_path |-> file_path, file_name |-> Basename(file_path),
   timestamp |-> timestamp, retry_button |-> "Retry", status |-> "",
   error |-> << >>, grade |-> << >>, feedback |-> << >>, is_complete |-> FALSE,
   total_grade |-> 0, max_score |-> 0, ex |-> << >>]

\* Lines 250-262: the row of a file from the outcome of grade_file, and whether
\* building it raised.
BuildRow(file_path, outcome, timestamp) ==
  IF outcome.status = "success"
  THEN flatten_results_to_row(outcome.data, SuccessRow(NewRow(file_path, timestamp)))
  ELSE [raised |-> FALSE, row |-> FailedRow(NewRow(file_path, timestamp), outcome.error)]

\* str(e) of the AttributeError that ex.get raises on a non-object element.
NoGetError == "'int' object has no attribute 'get'"

\* Lines 234-264 for one file, after grade_file returned; 286-287 when building
\* the row raises.
ProcessSubmissionsRow ==
  /\ op = "process_submissions"
  /\ UNCHANGED conv_vars
  /\ pc = "grading"
  /\ g_pc = "returned"
  /\ LET built == BuildRow(files[idx], result, now)
     IN IF built.raised
        THEN /\ ReturnNoTable(<<"Error: ", NoGetError>>)
             /\ UNCHANGED <<files, now, remote_calls, remote, remote_files>>
        ELSE /\ results' = Append(results, built.row)
             /\ hist_results' = Append(hist_results, Observe(NoHistory, result))
             /\ idx' = idx + 1
             /\ IF idx < Len(files)
                THEN /\ CallGradeFile
                     /\ UNCHANGED pc
                ELSE /\ pc' = "finish"
                     /\ g_pc' = "idle"
                     /\ UNCHANGED <<uploaded_file, result, deletes, delete_raised, response>>
             /\ UNCHANGED <<table_vars, status_output, op, args, files,
                            failed_indices, success_count, now, remote_calls, remote, remote_files>>

\* A slip: every row is counted, whatever its status.
CountStatusAny(table, status) == Len(table)

\* Lines 276-277: len([r for r in results if r['status'] == status]).
CountStatus(table, status) ==
  Cardinality({i \in 1..Len(table) : table[i].status = status})

\* Line 270: the path of the batch's CSV carries the time of the run.
CsvPath(timestamp) == <<"grading_results_", timestamp, ".csv">>

\* Lines 266-284.
ProcessSubmissionsFinish ==
  /\ op = "process_submissions"
  /\ UNCHANGED conv_vars
  /\ pc = "finish"
  /\ results_state' = results
  /\ hist' = hist_results
  /\ csv_path_state' = CsvPath(now)
  /\ csv_file' = ToCsv(results)
  /\ status_output' = <<"Processed", Len(files), CountStatus(results, "success"),
                        CountStatus(results, "failed")>>
  /\ Return
  /\ UNCHANGED <<files, now, remote_calls, remote, remote_files>>

\* ------------------------------------------------------------------ retries
\* _perform_grading_and_update_row after grade_file returned (lines 304-325):
\* the table afterwards (rows are updated in place, 1-based here), and whether
\* the call raised; the time stamp is the last assignment.
perform_grading_and_update_row(table, row, outcome, timestamp) ==
  LET cleared == ClearDynamicKeys(table[row])
      built == IF outcome.status = "success"
               THEN flatten_results_to_row(outcome.data, SuccessRow(cleared))
               ELSE [raised |-> FALSE, row |-> FailedRow(cleared, outcome.error)]
  IN [raised |-> built.raised,
      table |-> [table EXCEPT ![row] =
                   IF built.raised THEN built.row
                   ELSE [built.row EXCEPT !.timestamp = timestamp]]]

\* Lines 354 and 417: the CSV is rewritten when there is a path whose folder
\* exists; the submissions folder is there for as long as the session lasts.
CanPersist(csv_path) == csv_path /= NoPath

Persist(table) ==
  IF CanPersist(csv_path_state) THEN csv_file' = ToCsv(table) ELSE UNCHANGED csv_file

\* Lines 330-350.
RetrySingleBegin ==
  /\ op = "retry_single_grading"
  /\ UNCHANGED conv_vars
  /\ pc = "entry"
  /\ IF args.api_key = ""
     THEN /\ status_output' = <<"Please provide a Gemini API key">>
          /\ Return
     ELSE IF IsBlank(args.exercise_problem)
     THEN /\ status_output' = <<"Please ensure the exercise problem is still present">>
          /\ Return
     ELSE IF args.col_index /= RetryColumn
     THEN /\ status_output' = <<"Click on the Retry button to retry">>
          /\ Return
     ELSE IF results_state = << >> \/ args.row_index >= Len(results_state)
     THEN /\ status_output' = <<"Invalid file selection">>
          /\ Return
     ELSE /\ pc' = "grading"
          /\ CallGradeFile
          /\ UNCHANGED <<status_output, op, args, results, failed_indices, idx,
                         success_count, hist_results>>
  /\ UNCHANGED <<table_vars, files, now, remote_calls, remote, remote_files>>

\* Lines 350-379, after grade_file returned.
RetrySingleUpdate ==
  /\ op = "retry_single_grading"
  /\ UNCHANGED conv_vars
  /\ pc = "grading"
  /\ g_pc = "returned"
  /\ LET row == args.row_index + 1
         updated == perform_grading_and_update_row(results_state, row, result, now)
     IN /\ results_state' = updated.table
        /\ hist' = [hist EXCEPT ![row] = Observe(@, result)]
        /\ IF updated.raised
           THEN /\ status_output' = <<"Error during retry: ", NoGetError>>
                /\ UNCHANGED csv_file
           ELSE /\ Persist(updated.table)
                /\ status_output' =
                     IF result.status = "success"
                     THEN <<"Successfully re-graded ", updated.table[row].file_name>>
                     ELSE <<"Failed to re-grade ", updated.table[row].file_name>>
                          \o updated.table[row].error
  /\ Return
  /\ UNCHANGED <<csv_path_state, files, now, remote_calls, remote, remote_files>>

\* A slip: every row is collected.
AllIndices(table) == [i \in 1..Len(table) |-> i]

\* Line 395.
FailedIndices(table) ==
  SelectSeq([i \in 1..Len(table) |-> i], LAMBDA i : table[i].status = "failed")

\* Lines 383-405.
RetryAllBegin ==
  /\ op = "retry_all_failed"
  /\ UNCHANGED conv_vars
  /\ pc = "entry"
  /\ IF args.api_key = ""
     THEN /\ status_output' = <<"Please provide a Gemini API key">>
          /\ Return
     ELSE IF IsBlank(args.exercise_problem)
     THEN /\ status_output' = <<"Please ensure the exercise problem is still present">>
          /\ Return
     ELSE IF results_state = << >>
     THEN /\ status_output' = <<"No results to retry.">>
          /\ Return
     ELSE IF FailedIndices(results_state) = << >>
     THEN /\ status_output' = <<"No failed submissions to retry.">>
          /\ Return
     ELSE /\ failed_indices' = FailedIndices(results_state)
          /\ success_count' = 0
          /\ idx' = 1
          /\ pc' = "grading"
          /\ CallGradeFile
          /\ UNCHANGED <<status_output, op, args, results, hist_results>>
  /\ UNCHANGED <<table_vars, files, now, remote_calls, remote, remote_files>>

\* A slip: the except records the message and leaves the status.
CriticalRowKeepsStatus(row, message) ==
  [row EXCEPT !.error = <<"Critical retry error: ", message>>]

\* Lines 411-413: the except of the retry loop.
CriticalRow(row, message) ==
  [row EXCEPT !.status = "failed", !.error = <<"Critical retry error: ", message>>]

\* Lines 403-413 for one index, after grade_file returned.
RetryAllUpdate ==
  /\ op = "retry_all_failed"
  /\ UNCHANGED conv_vars
  /\ pc = "grading"
  /\ g_pc = "returned"
  /\ LET row == failed_indices[idx]
         updated == perform_grading_and_update_row(results_state, row, result, now)
     IN /\ results_state' =
             IF updated.raised
             THEN [updated.table EXCEPT ![row] = CriticalRow(@, NoGetError)]
             ELSE updated.table
        /\ hist' = [hist EXCEPT ![row] = Observe(@, result)]
        /\ success_count' =
             IF ~updated.raised /\ result.status = "success"
             THEN success_count + 1 ELSE success_count
  /\ idx' = idx + 1
  /\ IF idx < Len(failed_indices)
     THEN /\ CallGradeFile
          /\ UNCHANGED pc
     ELSE /\ pc' = "finish"
          /\ g_pc' = "idle"
          /\ UNCHANGED <<uploaded_file, result, deletes, delete_raised, response>>
  /\ UNCHANGED <<csv_path_state, csv_file, status_output, op, args, files, results,
                 failed_indices, hist_results, now, remote_calls, remote, remote_files>>

\* Lines 415-428.
RetryAllFinish ==
  /\ op = "retry_all_failed"
  /\ UNCHANGED conv_vars
  /\ pc = "finish"
  /\ Persist(results_state)
  /\ status_output' = <<"Retried", Len(failed_indices), success_count,
                        Len(failed_indices) - success_count>>
  /\ Return
  /\ UNCHANGED <<results_state, csv_path_state, hist, files, now, remote_calls, remote, remote_files>>

\* ------------------------------------------------------------------ specification
Next ==
  \/ ClickProcess
  \/ ClickRetry
  \/ ClickRetryAll
  \/ NewSession
  \/ ProcessSubmissionsBegin
  \/ ProcessSubmissionsRow
  \/ ProcessSubmissionsFinish
  \/ RetrySingleBegin
  \/ RetrySingleUpdate
  \/ RetryAllBegin
  \/ RetryAllUpdate
  \/ RetryAllFinish
  \/ Upload
  \/ Poll
  \/ CheckState
  \/ Generate
  \/ Cleanup
  \/ Tick

Spec == Init /\ [][Next]_vars

\* A round of the polling loop after which the loop ends: the service reported
\* another state than PROCESSING, or the call raised.
PollLeaves == Poll /\ ~(g_pc' = "poll" /\ uploaded_file' = "PROCESSING")

\* The thread of a handler goes on while grade_file runs: each remote call
\* returns or raises, and the service does not report PROCESSING for ever.
FairSpec ==
  /\ Spec
  /\ WF_vars(Upload)
  /\ WF_vars(PollLeaves)
  /\ WF_vars(CheckState)
  /\ WF_vars(Generate)
  /\ WF_vars(Cleanup)

\* ------------------------------------------------------------------ doctopdf.py
\* A name is the sequence of its code points.  DSTROKE and dstroke are the
\* Vietnamese letters the code replaces by hand; O_CIRC_TILDE is a letter that
\* NFD decomposes into "o" and two combining marks; CJK has no decomposition.
Ascii == {"a", "n", "s", "f", "D", "d", "o", " ", "_"}

\* unicodedata.normalize('NFD', name) of one code point.
Decompose(c) ==
  IF c = "O_CIRC_TILDE" THEN <<"o", "COMB_CIRC", "COMB_TILDE">> ELSE <<c>>

RECURSIVE NFD(_)
NFD(name) ==
  IF name = << >> THEN << >> ELSE Decompose(Head(name)) \o NFD(Tail(name))

IsAscii(c) == c \in Ascii

\* normalize_name, lines 7-31: replace the two letters, decompose, drop what is
\* not ASCII, replace spaces by underscores.
normalize_name(name) ==
  LET replaced == [i \in 1..Len(name) |->
                     IF name[i] = "DSTROKE" THEN "D"
                     ELSE IF name[i] = "dstroke" THEN "d" ELSE name[i]]
      ascii_name == SelectSeq(NFD(replaced), IsAscii)
  IN [i \in 1..Len(ascii_name) |-> IF ascii_name[i] = " " THEN "_" ELSE ascii_name[i]]

\* A file under input_dir: the names of its parent directories relative to
\* input_dir, its stem and its suffix.
DocFile(parent, stem, suffix) == [parent |-> parent, stem |-> stem, suffix |-> suffix]

DocA == DocFile(<< >>, <<"a">>, ".docx")
DocB == DocFile(<< <<"s", " ", "f">> >>, <<"DSTROKE", "O_CIRC_TILDE">>, ".docx")
DocC == DocFile(<< <<"s", "_", "f">> >>, <<"D", "o">>, ".docx")
Notes == DocFile(<< >>, <<"n">>, ".txt")

\* The files an input directory may hold.
MaxDocs == 4
DocPool == {DocA, DocB, DocC, Notes}

\* Line 59: input_dir.rglob('*.docx').
IsDocx(file) == file.suffix = ".docx"

\* The orders in which rglob may yield the files of a set.
Orders(S) ==
  {order \in [1..Cardinality(S) -> S] :
     \A i, j \in 1..Cardinality(S) : order[i] = order[j] => i = j}

\* Lines 71-87: the output path of a file, relative to output_dir.
FinalOutputPath(file) ==
  [parent |-> [i \in 1..Len(file.parent) |-> normalize_name(file.parent[i])],
   name |-> normalize_name(file.stem) \o <<".pdf">>]

\* The script is started on some input directory.
ConvertStart ==
  /\ input_is_dir \in BOOLEAN
  /\ input_tree \in {tree \in SUBSET DocPool : Cardinality(tree) <= MaxDocs}
  /\ input_is_dir = FALSE => input_tree = {}
  /\ c_pc = "start"
  /\ docx_files = << >>
  /\ c_idx = 0
  /\ converted_count = 0
  /\ failed_count = 0
  /\ output_files = {}
  /\ printed = << >>
  /\ conv_log = << >>

NoRemote == [states |-> {}, raises |-> FALSE, responses |-> {}]

ConvertInit ==
  /\ AppLaunch
  /\ remote = NoRemote
  /\ ConvertStart

app_vars ==
  <<results_state, csv_path_state, csv_file, status_output, op, pc, args, files,
    results, failed_indices, idx, success_count, g_pc, uploaded_file, result, now,
    remote_calls, deletes, delete_raised, response, hist, hist_results, remote,
    remote_files>>

\* Lines 41-65: the checks before the loop, and the scan.
ProcessDirectoryBegin ==
  /\ c_pc = "start"
  /\ IF ~input_is_dir
     THEN /\ printed' = <<"Error: Input directory not found">>
          /\ c_pc' = "returned"
          /\ UNCHANGED <<docx_files, c_idx>>
     ELSE \E found \in Orders({file \in input_tree : IsDocx(file)}) :
            /\ docx_files' = found
            /\ IF found = << >>
               THEN /\ printed' = <<"No .docx files found in the input directory.">>
                    /\ c_pc' = "returned"
                    /\ UNCHANGED c_idx
               ELSE /\ printed' = <<"Found", Len(found)>>
                    /\ c_pc' = "loop"
                    /\ c_idx' = 1
  /\ UNCHANGED <<input_is_dir, input_tree, converted_count, failed_count,
                 output_files, conv_log, app_vars>>

\* A slip: the exception of one file ends the loop.
OnConvertErrorStops ==
  /\ failed_count' = failed_count + 1
  /\ conv_log' = Append(conv_log, [file |-> docx_files[c_idx], outcome |-> "failed"])
  /\ c_idx' = Len(docx_files) + 1
  /\ UNCHANGED <<converted_count, output_files>>

\* Lines 103-105: except Exception counts the file as failed; the loop goes on.
OnConvertError ==
  /\ failed_count' = failed_count + 1
  /\ conv_log' = Append(conv_log, [file |-> docx_files[c_idx], outcome |-> "failed"])
  /\ c_idx' = c_idx + 1
  /\ UNCHANGED <<converted_count, output_files>>

\* Lines 67-105: one iteration of the loop.  The path arithmetic cannot fail;
\* mkdir (line 91) or convert (line 98) return or raise.
ConvertFile ==
  /\ c_pc = "loop"
  /\ c_idx <= Len(docx_files)
  /\ \/ /\ output_files' = output_files \cup {FinalOutputPath(docx_files[c_idx])}
        /\ converted_count' = converted_count + 1
        /\ conv_log' = Append(conv_log, [file |-> docx_files[c_idx], outcome |-> "converted"])
        /\ c_idx' = c_idx + 1
        /\ UNCHANGED failed_count
     \/ OnConvertError
  /\ printed' = <<"Processing", c_idx>>
  /\ UNCHANGED <<input_is_dir, input_tree, c_pc, docx_files, app_vars>>

\* Lines 107-114: the summary.
ProcessDirectorySummary ==
  /\ c_pc = "loop"
  /\ c_idx > Len(docx_files)
  /\ printed' = <<"Conversion Complete", converted_count, failed_count>>
  /\ c_pc' = "returned"
  /\ UNCHANGED <<input_is_dir, input_tree, docx_files, c_idx, converted_count,
                 failed_count, output_files, conv_log, app_vars>>

ConvertNext ==
  \/ ProcessDirectoryBegin
  \/ ConvertFile
  \/ ProcessDirectorySummary

ConvertSpec == ConvertInit /\ [][ConvertNext]_vars

\* ------------------------------------------------------------------ properties
RetryHandlers == {"retry_single_grading", "retry_all_failed"}

\* The step in which a handler takes the dictionary grade_file returned and
\* enters it into the row of the file.
EntersOutcome == pc = "grading" /\ g_pc = "returned" /\ g_pc' /= "returned"

\* The row (1-based) that the running retry handler is grading.
Target == IF op = "retry_single_grading" THEN args.row_index + 1 ELSE failed_indices[idx]

\* The row built or updated by the step EntersOutcome, as it is afterwards.
EnteredRow ==
  IF op = "process_submissions" THEN results'[idx] ELSE results_state'[Target]

\* The ex_* keys that the exercise objects of a grading result give rise to.
KeysOfOutcome(outcome) ==
  {ExColumn(id, ExFields[f]) : id \in IdsOf(outcome.data), f \in 1..3}

\* C1: when process_submissions returns after scanning a non-empty file list,
\* whatever the outcome of each file was, the table it returns has exactly one
\* row per scanned file, in scan order.
C1_OneRowPerScannedFile ==
  (op = "idle" /\ files /= << >>) =>
    /\ Len(results_state) = Len(files)
    /\ \A i \in 1..Len(files) : results_state[i].file_path = files[i]

RetryKeysStep ==
  (op \in RetryHandlers /\ EntersOutcome) =>
    /\ ExKeys(EnteredRow) \subseteq KeysOfOutcome(result)
    /\ (result.status = "failed" \/ IsExerciseList(result.data)) =>
         (ExKeys(EnteredRow) = KeysOfOutcome(result))

\* C2: after a retry of a row (single or all-failed), every ex_* key of the row
\* comes from the new grading result, so no key of an earlier attempt survives;
\* when the result is a failure or an array of exercise objects the row's ex_*
\* keys are exactly the keys of that result.
C2_RetryRebuildsExKeys == [][RetryKeysStep]_vars

\* A row that had a successful parse was retried on its own and failed: it
\* carries no ex_* key any more.
C2_Witness ==
  /\ op = "idle"
  /\ Len(status_output) > 0 /\ status_output[1] = "Failed to re-grade "
  /\ \E i \in 1..Len(results_state) :
       /\ hist[i].parsed /\ hist[i].last = "failure"
       /\ results_state[i].status = "failed"
       /\ ExKeys(results_state[i]) = {}

\* C3 as stated: for all rows, max_score is the number of exercises of the
\* row's last successful parse and total_grade the sum of their grades.
C3_LastSuccessfulParse ==
  \A i \in 1..Len(results_state) :
    hist[i].parsed =>
      /\ results_state[i].max_score = hist[i].summary.count
      /\ results_state[i].total_grade = hist[i].summary.sum

\* C3 amended: for all rows, when the row's last grading attempt that returned
\* a failure or an array of exercise objects was a success, max_score is the
\* number of its exercises and total_grade the sum of the grades the code takes
\* as numbers (a JSON boolean counts as 1 or 0); when it was a failure, both
\* are 0.
C3_TotalsOfLastAttempt ==
  \A i \in 1..Len(results_state) :
    /\ hist[i].last = "success" =>
         /\ results_state[i].max_score = hist[i].summary.count
         /\ results_state[i].total_grade = hist[i].summary.sum
    /\ hist[i].last = "failure" =>
         /\ results_state[i].max_score = 0
         /\ results_state[i].total_grade = 0

\* One row holds a parse of two exercises of which one grade is no number, and
\* another row had a parse of two exercises and failed afterwards.
C3_Witness ==
  /\ op = "idle"
  /\ \E i, j \in 1..Len(results_state) :
       /\ hist[i].last = "success"
       /\ results_state[i].max_score = 2 /\ results_state[i].total_grade = 1
       /\ hist[j].last = "failure" /\ hist[j].parsed
       /\ hist[j].summary.count = 2 /\ results_state[j].max_score = 0

FailureStep ==
  (EntersOutcome /\ result.status = "failed") =>
    /\ EnteredRow.status = "failed"
    /\ EnteredRow.total_grade = 0
    /\ EnteredRow.max_score = 0
    /\ EnteredRow.grade = << >>
    /\ EnteredRow.is_complete = FALSE
    /\ EnteredRow.error = result.error

\* C5: whenever a grading attempt ends in a failure, in the batch or in either
\* retry, the row afterwards has status failed, total_grade 0, max_score 0,
\* grade '' and is_complete false, and its error is the failure's message.
C5_FailureRow == [][FailureStep]_vars

\* A row that was graded with two exercises was retried and failed to parse:
\* it shows the parse failure and no grade.
C5_Witness ==
  /\ op = "idle"
  /\ \E i \in 1..Len(results_state) :
       /\ hist[i].parsed /\ hist[i].summary.count = 2
       /\ results_state[i].status = "failed"
       /\ results_state[i].error =
            <<"Failed to parse LLM response. Raw: ", "Sorry, I cannot grade this.">>
       /\ results_state[i].total_grade = 0
       /\ results_state[i].grade = << >>

\* The dictionary grade_file returns when the upload itself raised.
UploadFailed ==
  result.status = "failed" /\ Len(result.error) = 2 /\ result.error[1] = "Upload failed: "

\* The finally block returns to the caller and leaves the outcome alone.
FinallyStep == (g_pc = "cleanup") => (g_pc' = "returned" /\ result' = result)

\* C6: in every grade_file call in which the upload succeeded the delete of the
\* remote file is attempted exactly once before the call returns, whatever
\* happened in between, and when the upload failed it is not attempted; the
\* finally block always returns and leaves the outcome as it was, whether the
\* delete raises or not.
C6_DeleteAttemptedOnce ==
  /\ [](deletes <= 1)
  /\ [](g_pc = "returned" => deletes = (IF UploadFailed THEN 0 ELSE 1))
  /\ [](g_pc \in {"poll", "generate"} => deletes = 0)
  /\ [][FinallyStep]_vars

\* A call returned a success although the delete of its file raised.
C6_Witness ==
  /\ g_pc = "returned"
  /\ delete_raised
  /\ deletes = 1
  /\ result.status = "success"

\* A step of a retry handler keeps the number of rows and every row's
\* file_path and file_name, and changes no row but the one being graded.
RetryStepFrame ==
  op \in RetryHandlers =>
    /\ Len(results_state') = Len(results_state)
    /\ \A i \in 1..Len(results_state) :
         /\ results_state'[i].file_path = results_state[i].file_path
         /\ results_state'[i].file_name = results_state[i].file_name
         /\ (results_state'[i] /= results_state[i]) => (EntersOutcome /\ i = Target)

\* retry_all_failed collects, in order, exactly the rows whose status is failed.
CollectsFailedRows ==
  (op = "retry_all_failed" /\ pc = "entry" /\ pc' = "grading") =>
    /\ \A i \in 1..Len(results_state) :
         (\E k \in 1..Len(failed_indices') : failed_indices'[k] = i)
           <=> (results_state[i].status = "failed")
    /\ \A k, l \in 1..Len(failed_indices') :
         (k < l) => (failed_indices'[k] < failed_indices'[l])

\* C7: a retry changes only the targeted rows.  No step of a retry handler
\* changes the number of rows or any row's file_path or file_name, and a row
\* that changes is the row being graded: the row at rowIndex for
\* retry_single_grading, one of the collected indices for retry_all_failed,
\* which collects exactly the rows whose status is failed when it starts and
\* has graded each of them once when it persists.
C7_RetryFrame ==
  /\ [][RetryStepFrame]_vars
  /\ [][CollectsFailedRows]_vars
  /\ [](op = "retry_all_failed" /\ pc = "grading" =>
          /\ idx \in 1..Len(failed_indices)
          /\ results_state[failed_indices[idx]].status = "failed")
  /\ [](op = "retry_all_failed" /\ pc = "finish" => idx = Len(failed_indices) + 1)

\* retry_all_failed returned after one retry on a table of two rows: the other
\* row is a success that still carries the earlier time stamp.
C7_Witness ==
  /\ op = "idle"
  /\ status_output = <<"Retried", 1, 1, 0>>
  /\ Len(results_state) = 2
  /\ \E i, j \in 1..2 :
       /\ results_state[i].status = "success" /\ results_state[i].timestamp < now
       /\ results_state[j].status = "success" /\ results_state[j].timestamp = now

\* The no-op conditions of the retry handlers, read off the inputs and the table.
NoOpCondition ==
  \/ args.api_key = ""
  \/ args.exercise_problem \in {"", "  "}
  \/ results_state = << >>
  \/ /\ op = "retry_all_failed"
     /\ \A i \in 1..Len(results_state) : results_state[i].status /= "failed"

NoOpStep ==
  (op \in RetryHandlers /\ pc = "entry" /\ NoOpCondition) =>
    /\ op' = "idle"
    /\ status_output' /= << >>
    /\ remote_calls' = {}
    /\ g_pc' = "idle"
    /\ UNCHANGED <<results_state, csv_path_state, csv_file>>

\* C8: a retry handler invoked under a no-op condition (no credential, blank
\* rubric, empty table, or for retry_all_failed no failed row) returns at once
\* with a status message, having made no remote call, and leaves the table and
\* the CSV file as they were.
C8_NoOpRetry == [][NoOpStep]_vars

\* retry_all_failed returned its message on a table that has rows, none failed.
C8_Witness ==
  /\ op = "idle"
  /\ status_output = <<"No failed submissions to retry.">>
  /\ results_state /= << >>
  /\ csv_file = ToCsv(results_state)

\* Updating the row raised outside grade_file: the row is marked, and the loop
\* goes on.
CriticalErrorStep ==
  (op = "retry_all_failed" /\ EntersOutcome
   /\ result.status = "success" /\ ~IsExerciseList(result.data)) =>
    /\ EnteredRow.status = "failed"
    /\ EnteredRow.error[1] = "Critical retry error: "
    /\ op' = "retry_all_failed"
    /\ IF idx < Len(failed_indices)
       THEN g_pc' = "upload" /\ idx' = idx + 1 /\ pc' = "grading"
       ELSE pc' = "finish"

\* A grading failure never carries the critical error's message.
FailureIsNotCritical ==
  (EntersOutcome /\ result.status = "failed") =>
    (EnteredRow.error[1] /= "Critical retry error: ")

\* The end of retry_all_failed writes the table to the CSV.
RetryAllPersists ==
  (op = "retry_all_failed" /\ pc = "finish") =>
    (op' = "idle" /\ csv_file' = ToCsv(results_state'))

\* C9: in retry_all_failed, when updating the row of one failed file raises
\* outside grade_file (the result is no list of exercise objects), the row ends
\* with status failed and an error that starts "Critical retry error: ", which no
\* grading failure does; the loop goes on to the next collected index, and
\* after the last one the table is persisted to the CSV.
C9_CriticalRetryError ==
  /\ [][CriticalErrorStep]_vars
  /\ [][FailureIsNotCritical]_vars
  /\ [][RetryAllPersists]_vars

\* retry_all_failed retried two rows: the first ended in the critical error,
\* the second was graded after it, and the CSV holds both.
C9_Witness ==
  /\ op = "idle"
  /\ Len(status_output) = 4 /\ status_output[1] = "Retried" /\ status_output[2] = 2
  /\ Len(results_state) = 2
  /\ results_state[1].status = "failed"
  /\ results_state[1].error = <<"Critical retry error: ", NoGetError>>
  /\ results_state[2].status = "success"
  /\ csv_file = ToCsv(results_state)

\* The steps that write the CSV: the two finishes, and the return of
\* retry_single_grading when updating the row did not raise.
Persists ==
  \/ pc = "finish" /\ op' = "idle"
  \/ /\ op = "retry_single_grading" /\ EntersOutcome
     /\ status_output'[1] /= "Error during retry: "

\* The ex_* keys carried by any row of a table.
AllExKeys(table) == UNION {ExKeys(table[i]) : i \in 1..Len(table)}

\* The columns of a CSV are the nine core columns in their order, then the
\* ex_* keys of the table's rows, each once, in lexicographic order, and the
\* CSV has one line per row.
WellFormedCsv(csv, table) ==
  LET n == Len(csv.columns) - Len(CoreColumns)
      dynamic == SubSeq(csv.columns, Len(CoreColumns) + 1, Len(csv.columns))
  IN /\ Len(csv.rows) = Len(table)
     /\ n >= 0
     /\ SubSeq(csv.columns, 1, Len(CoreColumns)) =
          << <<"file_path">>, <<"file_name">>, <<"status">>, <<"grade">>,
             <<"total_grade">>, <<"max_score">>, <<"is_complete">>,
             <<"error">>, <<"timestamp">> >>
     /\ SeqToSet(dynamic) = AllExKeys(table)
     /\ \A k, l \in 1..n :
          (k < l) => LexLess(ColumnChars(dynamic[k]), ColumnChars(dynamic[l]))

PersistStep == Persists => WellFormedCsv(csv_file', results_state')

\* C10: every persist writes a CSV with one line per row of the table in
\* memory, whose columns are the nine core columns in their fixed order followed
\* by the ex_* keys carried by any current row, each once, in lexicographic order.
C10_PersistedColumns == [][PersistStep]_vars

\* After a single retry the CSV of a table of two rows has the columns of
\* three exercise ids, those of id 10 before those of id 1.
C10_Witness ==
  /\ op = "idle"
  /\ Len(status_output) > 0 /\ status_output[1] = "Successfully re-graded "
  /\ Len(csv_file.columns) = 18
  /\ csv_file.columns[10] = <<"ex_", "10", "_", "attempted">>
  /\ csv_file.columns[13] = <<"ex_", "1", "_", "attempted">>
  /\ Len(csv_file.rows) = 2

\* ------------------------------------------------------------------ C11
\* The response of generate_content was no JSON, no array, or an empty array.
Unparsable(answer) ==
  \/ answer.kind \in {"invalid", "object"}
  \/ (answer.kind = "array" /\ answer.value = << >>)

\* The raw response text is part of the error of the outcome.
CarriesRawText(outcome, answer) ==
  \E k \in 1..Len(outcome.error) : outcome.error[k] = answer.text

\* C11 as stated: a response that fails to parse as JSON, is no array, or is an
\* empty array gives a failure outcome whose error carries the raw response text.
C11_FailureCarriesRawText ==
  Unparsable(response) =>
    (result.status = "failed" /\ CarriesRawText(result, response))

\* C11 amended: a response that fails to parse as JSON or is no array gives the
\* failure "Failed to parse LLM response. Raw: " followed by the raw response
\* text; an empty array gives the failure "Grader returned an empty result
\* list.", which carries no response text.
C11_ParseFailureOutcome ==
  /\ response.kind \in {"invalid", "object"} =>
       /\ result.status = "failed"
       /\ result.error = <<"Failed to parse LLM response. Raw: ", response.text>>
  /\ (response.kind = "array" /\ response.value = << >>) =>
       /\ result.status = "failed"
       /\ result.error = <<"Grader returned an empty result list.">>
       /\ ~CarriesRawText(result, response)

\* grade_file got the empty array for the second file of a batch whose first
\* file's row carries the raw text of an answer that was no JSON.
C11_Witness ==
  /\ op = "process_submissions" /\ g_pc = "returned"
  /\ response = Array(<< >>)
  /\ result = Failure(<<"Grader returned an empty result list.">>)
  /\ Len(results) = 1
  /\ results[1].error =
       <<"Failed to parse LLM response. Raw: ", "Sorry, I cannot grade this.">>

\* ------------------------------------------------------------------ C12
\* Lower case of a string of code points ('A'..'Z' are 65..90).
Lower(s) == [i \in 1..Len(s) |-> IF s[i] \in 65..90 THEN s[i] + 32 ELSE s[i]]

\* The files of the folder whose name ends with one of the listed extensions,
\* upper and lower case taken as equal.
MatchingIgnoringCase(file_extensions) ==
  LET raw == SplitAt(CharsOf[file_extensions], 44, << >>)
  IN {f \in Directory :
        \E k \in 1..Len(raw) :
          EndsWith(Lower(BasenameChars(CharsOf[f])), Lower(NormalizeExt(raw[k])))}

\* The paths stand in lexicographic order.
InPathOrder(paths) ==
  \A k, l \in 1..Len(paths) :
    (k < l) => ~LexLess(CharsOf[paths[l]], CharsOf[paths[k]])

\* C12: the list scan_folder gave the running batch holds, in lexicographic path
\* order, exactly the files of the folder whose extension matches one of the
\* listed extensions without regard to case.
C12_ScanMatchesIgnoringCase ==
  (op = "process_submissions" /\ pc = "grading") =>
    /\ SeqToSet(files) = MatchingIgnoringCase(args.file_extensions)
    /\ InPathOrder(files)

\* ------------------------------------------------------------------ C13
\* No file of the folder has a name that ends with a listed extension.
NoMatchingFile(file_extensions) ==
  LET raw == SplitAt(CharsOf[file_extensions], 44, << >>)
  IN \A f \in Directory : \A k \in 1..Len(raw) :
       ~EndsWith(BasenameChars(CharsOf[f]), NormalizeExt(raw[k]))

\* The no-op conditions of process_submissions, read off its inputs.
ProcessNoOpCondition ==
  \/ args.api_key = ""
  \/ args.folder_path \in {"", "missing"}
  \/ args.exercise_problem \in {"", "  "}
  \/ NoMatchingFile(args.file_extensions)

ProcessNoOpMessages ==
  {"Please provide a Gemini API key",
   "Please provide a valid folder path for submissions",
   "Please paste the exercise problem statement(s)",
   "No submission files found with extensions: "}

ProcessNoOpStep ==
  (op = "process_submissions" /\ pc = "entry" /\ ProcessNoOpCondition) =>
    /\ op' = "idle"
    /\ status_output' /= << >> /\ status_output'[1] \in ProcessNoOpMessages
    /\ results_state' = << >>
    /\ csv_path_state' = NoPath
    /\ remote_calls' = {}
    /\ g_pc' = "idle"
    /\ UNCHANGED csv_file

\* C13: process_submissions called without a credential, with a missing or
\* nonexistent folder, a blank rubric, or a folder without a matching file
\* returns at once with an explanatory message, an empty table and no CSV path,
\* having made no remote call and written no CSV file.
C13_ProcessNoOp == [][ProcessNoOpStep]_vars

\* process_submissions returned its message for a folder without a .txt file.
C13_Witness ==
  /\ op = "idle"
  /\ status_output = <<"No submission files found with extensions: ", ".txt">>
  /\ results_state = << >>
  /\ csv_path_state = NoPath
  /\ csv_file = NoFile
  /\ remote_calls = {}

\* ------------------------------------------------------------------ C14
\* C14: during a batch and during retry_all_failed at most one uploaded file is
\* held by the remote service without a delete attempt, and the upload of a
\* file starts only when none is: the delete of the file before it was
\* attempted, or its upload failed.
C14_OneFileInFlight ==
  /\ remote_files <= 1
  /\ (g_pc = "upload") => (remote_files = 0)

\* The second file of a batch is uploaded and not deleted yet, and so is, in
\* another run, the second failed row of retry_all_failed.
C14_Witness ==
  /\ op \in {"process_submissions", "retry_all_failed"}
  /\ idx = 2
  /\ g_pc = "generate"
  /\ remote_calls = {"upload", "generate", "delete"}
  /\ remote_files = 1

\* ------------------------------------------------------------------ C15
\* A round of the polling loop in which the service reports PROCESSING again.
StillProcessingStep ==
  (g_pc = "poll" /\ uploaded_file = "PROCESSING"
   /\ uploaded_file' = "PROCESSING" /\ g_pc' /= "cleanup") =>
    /\ g_pc' = "poll"
    /\ result' = NoResult
    /\ response' = NoResponse
    /\ deletes' = 0

\* C15: a call of grade_file whose remote calls return or raise, and whose file
\* is not reported PROCESSING for ever, returns, and what it returns is one
\* dictionary of status success or failed; the polling loop has no timeout: as
\* long as each poll reports PROCESSING the call stays in the loop, with no
\* outcome, no generate request and no delete attempt.
C15_ReturnsUnlessStuck ==
  /\ [](g_pc = "returned" => result.status \in {"success", "failed"})
  /\ (g_pc = "upload") ~> (g_pc = "returned")
  /\ [][StillProcessingStep]_vars

\* grade_file returned a success after a poll had found the file still
\* PROCESSING.
C15_Witness ==
  /\ g_pc = "returned"
  /\ "get" \in remote_calls
  /\ result.status = "success"
  /\ deletes = 1

\* ------------------------------------------------------------------ C16
\* The step that sends the generate request.
SendsGenerate == g_pc = "generate" /\ g_pc' = "cleanup"

GenerateWhenReadyStep == SendsGenerate => (uploaded_file = "ACTIVE")

\* The file was reported FAILED: the call is at the end of the loop or past it
\* with a failure, and it got no answer from generate_content.
FailedFileOutcome ==
  (g_pc /= "idle" /\ uploaded_file = "FAILED") =>
    /\ g_pc \in {"poll", "cleanup", "returned"}
    /\ (g_pc /= "poll") =>
         /\ result = Failure(<<"File processing failed on Gemini's end">>)
         /\ response = NoResponse

\* C16: grade_file sends the generate request only when the last state it read
\* of the uploaded file is the ready state (ACTIVE); when that state is FAILED
\* the outcome is a failure and no generate request is sent for the file.
C16_GenerateOnlyWhenReady ==
  /\ [][GenerateWhenReadyStep]_vars
  /\ []FailedFileOutcome

\* The first file of a handler was polled, was reported FAILED, and grade_file
\* returned a failure after deleting it, without a generate request.
C16_Witness ==
  /\ g_pc = "returned"
  /\ uploaded_file = "FAILED"
  /\ remote_calls = {"upload", "get", "delete"}
  /\ result.status = "failed"

\* ------------------------------------------------------------------ C17
\* The grade the row keeps for the exercise at place i of the data: the raw
\* value, 0 when the key is missing; a later exercise of the same id replaces it.
KeepsRawGrade(row, data, i) ==
  LET id == IF data[i].exercise_id = ABSENT THEN "N/A" ELSE data[i].exercise_id[2]
      raw == IF data[i].grade = ABSENT THEN <<"num", 0>> ELSE data[i].grade
  IN (\A j \in (i + 1)..Len(data) : data[j].exercise_id /= data[i].exercise_id) =>
       \E k \in 1..Len(row.ex) : row.ex[k].id = id /\ row.ex[k].grade = raw

NonNumericGradeStep ==
  (EntersOutcome /\ result.status = "success" /\ IsExerciseList(result.data)) =>
    /\ EnteredRow.status = "success"
    /\ EnteredRow.max_score = Len(result.data)
    /\ EnteredRow.total_grade = GradeSum(result.data)
    /\ \A i \in 1..Len(result.data) : KeepsRawGrade(EnteredRow, result.data, i)

\* C17: the row built from a successful parse has status success, counts every
\* exercise in max_score, keeps each raw grade value under ex_<id>_grade, and
\* has as total_grade the sum of the grades that are numbers: a grade that is
\* not numeric adds 0.
C17_NonNumericGradeAddsZero == [][NonNumericGradeStep]_vars

\* ------------------------------------------------------------------ C18
\* The number of the given rows (1-based indices) that have the status.
RowsWithStatus(table, indices, status) ==
  Cardinality({k \in 1..Len(indices) : table[indices[k]].status = status})

\* process_submissions returns its summary.
BatchSummaryStep ==
  (op = "process_submissions" /\ pc = "finish") =>
    LET all == [i \in 1..Len(results_state') |-> i]
    IN /\ Len(status_output') = 4 /\ status_output'[1] = "Processed"
       /\ status_output'[2] = Len(files)
       /\ status_output'[3] = RowsWithStatus(results_state', all, "success")
       /\ status_output'[4] = RowsWithStatus(results_state', all, "failed")
       /\ status_output'[3] + status_output'[4] = Len(files)

\* retry_all_failed returns its summary; failed_indices are the rows that were
\* failed when it started.
RetrySummaryStep ==
  (op = "retry_all_failed" /\ pc = "finish") =>
    /\ Len(status_output') = 4 /\ status_output'[1] = "Retried"
    /\ status_output'[2] = Len(failed_indices)
    /\ status_output'[3] + status_output'[4] = Len(failed_indices)
    /\ status_output'[3] = RowsWithStatus(results_state', failed_indices, "success")

SummaryStep == BatchSummaryStep /\ RetrySummaryStep

\* C18: the counts of the summary agree with the table: after
\* process_submissions the success and failed counts are the numbers of rows of
\* each status and add up to the number of scanned files; after
\* retry_all_failed the counts add up to the number of rows that were failed at
\* its start, and the success count is the number of those rows that have
\* status success afterwards.
C18_SummaryCounts == [][SummaryStep]_vars

\* retry_all_failed retried two failed rows: one is a success now, one failed.
C18_Witness ==
  /\ op = "idle"
  /\ status_output = <<"Retried", 2, 1, 1>>
  /\ Len(results_state) = 2
  /\ {results_state[1].status, results_state[2].status} = {"success", "failed"}

\* ------------------------------------------------------------------ C19
\* How often the loop recorded an outcome for the file.
TimesLogged(file) == Cardinality({k \in 1..Len(conv_log) : conv_log[k].file = file})

LoggedAs(outcome) == Cardinality({k \in 1..Len(conv_log) : conv_log[k].outcome = outcome})

\* process_directory printed its summary.
ConversionComplete ==
  c_pc = "returned" /\ Len(printed) = 3 /\ printed[1] = "Conversion Complete"

\* C19: a conversion failure for one .docx file does not stop the remaining
\* files, and on completion converted_count + failed_count is the number of
\* .docx files discovered, each file being counted in exactly one of the two.
C19_EveryFileCountedOnce ==
  ConversionComplete =>
    /\ converted_count + failed_count = Len(docx_files)
    /\ printed = <<"Conversion Complete", converted_count, failed_count>>
    /\ \A file \in input_tree : TimesLogged(file) = IF IsDocx(file) THEN 1 ELSE 0
    /\ converted_count = LoggedAs("converted")
    /\ failed_count = LoggedAs("failed")
    /\ \A k \in 1..Len(conv_log) : conv_log[k].outcome \in {"converted", "failed"}

\* The first of three files failed, and the other two were converted.
C19_Witness ==
  /\ ConversionComplete
  /\ Len(conv_log) = 3
  /\ conv_log[1].outcome = "failed"
  /\ converted_count = 2
  /\ failed_count = 1

\* ------------------------------------------------------------------ C20
\* The row is what one successful grading result makes of it: no error, at
\* least one exercise, the grade text of its totals, and totals and ex_* keys
\* that are those of one and the same result (the one h records).
SuccessRowConsistent(row, h) ==
  /\ row.error = << >>
  /\ row.max_score >= 1
  /\ row.grade = GradeText(row.total_grade, row.max_score)
  /\ h.last = "success"
  /\ row.max_score = h.summary.count
  /\ row.total_grade = h.summary.sum
  /\ ExKeys(row) = {ExColumn(id, ExFields[f]) : id \in h.ids, f \in 1..3}

\* C20: after any sequence of batch, retry_single_grading and retry_all_failed
\* operations, those that end in an error message included, every row of the
\* table has status success or failed, and every row with status success has
\* an empty error, max_score >= 1, the grade text "<total_grade> / <max_score>"
\* and ex_* keys of the same grading result as its aggregate fields.
C20_SuccessRowsConsistent ==
  op = "idle" =>
    \A i \in 1..Len(results_state) :
      /\ results_state[i].status \in {"success", "failed"}
      /\ results_state[i].status = "success" =>
           SuccessRowConsistent(results_state[i], hist[i])

\* ------------------------------------------------------------------ C21
\* C21: whenever a batch or retry operation has returned, with a success or an
\* error message, and the table in memory is not empty, the CSV file at the
\* batch's CSV path holds exactly the table in memory: no retry leaves a row
\* changed in memory while the file still shows its earlier content.
C21_CsvHoldsTable ==
  (op = "idle" /\ results_state /= << >>) =>
    /\ csv_path_state /= NoPath
    /\ csv_file = ToCsv(results_state)

\* ------------------------------------------------------------------ C22
\* No element of the sequence occurs twice.
NoRepeat(seq) == \A k, l \in 1..Len(seq) : seq[k] = seq[l] => k = l

\* The file_path cells of the lines of a CSV file.
CsvFilePaths(csv) ==
  LET j == CHOOSE c \in 1..Len(csv.columns) : csv.columns[c] = <<"file_path">>
  IN [i \in 1..Len(csv.rows) |-> csv.rows[i][j]]

\* C22: for every extension list, lists whose entries overlap or repeat
\* included, scan_folder returns each matching file path at most once, so the
\* result table and the CSV hold at most one row per submission file path.
C22_OneRowPerFilePath ==
  /\ NoRepeat(files)
  /\ NoRepeat([i \in 1..Len(results_state) |-> results_state[i].file_path])
  /\ csv_file /= NoFile => NoRepeat(CsvFilePaths(csv_file))

====
